---- MODULE Spec2Model ----
(***************************************************************************)
(* A model of proxysql_exporter (src/main.go): the collection loop         *)
(* GetStats with its connection handle, its two sampling passes and the    *)
(* prometheus gauges they write, and the filter compiler makeWhere.        *)
(*                                                                         *)
(* Strings are sequences of one-character strings.  A SQL text is a        *)
(* sequence of tokens: white space between tokens is not modelled, the     *)
(* text of each pattern operand is kept character for character.           *)
(***************************************************************************)
EXTENDS Integers, Sequences, FiniteSets, TLC

\* ------------------------------------------------------------------ bounds

\* rows of one stats_mysql_connection_pool result
MaxRows == 2

\* rows of one stats_mysql_query_digest result
MaxDigests == 3

\* result sets that can be open at once on the handle
MaxOpenSets == 1

\* patterns of a list handed to makeWhere
MaxPatterns == 2
\* characters of a pattern
MaxPatLen == 2

\* ----------------------------------------------------------------- strings

\* the characters the patterns handed to makeWhere are written with
PatChars == {" ", "a"}

SeqsUpTo(S, n) == UNION {[1..k -> S] : k \in 0..n}

Patterns == SeqsUpTo(PatChars, MaxPatLen)

PatternLists == SeqsUpTo(Patterns, MaxPatterns)

RECURSIVE TrimLeft(_, _)
TrimLeft(s, cutset) ==
    IF s # <<>> /\ Head(s) \in cutset THEN TrimLeft(Tail(s), cutset) ELSE s

RECURSIVE TrimRight(_, _)
TrimRight(s, cutset) ==
    IF s # <<>> /\ s[Len(s)] \in cutset
    THEN TrimRight(SubSeq(s, 1, Len(s) - 1), cutset)
    ELSE s

\* strings.Trim(s, cutset)
Trim(s, cutset) == TrimRight(TrimLeft(s, cutset), cutset)

\* ------------------------------------------------------------- SQL tokens

\* a word or sign of the query text that the program writes itself
KW(word) == [kind |-> "kw", text |-> <<word>>]

\* the text the program splices in after "like"
PAT(chars) == [kind |-> "pat", text |-> chars]

\* ---------------------------------------------------------------- makeWhere

\* faulty variants of union: one join word for both modes
unionAlwaysAnd(entryType) == "and"

unionAlwaysOr(entryType) == "or"

union(entryType) == IF entryType THEN "or" ELSE "and"

\* a faulty variant of negation: no "not" in either mode
negationAbsent(entryType) == <<>>

negation(entryType) == IF entryType THEN <<>> ELSE <<KW("not")>>

\* the test of line 191, on the pattern as supplied
PatternAccepted(pattern) == Len(pattern) # 0

\* a faulty variant of LikeClause: the pattern spliced in as supplied
LikeClauseVerbatim(pattern, entryType) ==
    <<KW("digest_text")>> \o negation(entryType) \o <<KW("like"), PAT(pattern)>>

\* fmt.Sprintf("digest_text %s like %v", negation, strings.Trim(pattern, " "))
LikeClause(pattern, entryType) ==
    <<KW("digest_text")>> \o negation(entryType)
        \o <<KW("like"), PAT(Trim(pattern, {" "}))>>

\* the loop of lines 190-200 from index i on, where holding the text so far;
\* exit is os.Exit(1)
RECURSIVE WhereLoop(_, _, _, _)
WhereLoop(lPat, entryType, i, whereSoFar) ==
    IF i > Len(lPat)
    THEN [exit |-> FALSE, where |-> whereSoFar \o <<KW(")")>>]
    ELSE IF PatternAccepted(lPat[i])
         THEN WhereLoop(lPat, entryType, i + 1,
                        whereSoFar
                          \o (IF i # 1 THEN <<KW(union(entryType))>> ELSE <<>>)
                          \o LikeClause(lPat[i], entryType))
         ELSE [exit |-> TRUE, where |-> whereSoFar]

\* a faulty variant of makeWhere: the length test of line 188 dropped
makeWhereNoLengthTest(lPat, entryType) ==
    WhereLoop(lPat, entryType, 1, <<KW("and"), KW("(")>>)

makeWhere(lPat, entryType) ==
    IF Len(lPat) # 0
    THEN WhereLoop(lPat, entryType, 1, <<KW("and"), KW("(")>>)
    ELSE [exit |-> FALSE, where |-> <<>>]

\* ------------------------------------------- the statistics source's SQL

\* digest texts of the rows the source holds
TextChars == {"a", "b"}

MaxTextLen == 2

DigestTexts == SeqsUpTo(TextChars, MaxTextLen)

\* digest_text LIKE pat, with % standing for any run of characters
RECURSIVE Like(_, _)
Like(text, pat) ==
    IF pat = <<>> THEN text = <<>>
    ELSE IF Head(pat) = "%"
         THEN Like(text, Tail(pat)) \/ (text # <<>> /\ Like(Tail(text), pat))
         ELSE text # <<>> /\ Head(text) = Head(pat) /\ Like(Tail(text), Tail(pat))

\* the places from i on where the word stands outside every parenthesis, depth
\* parentheses being open before token i
RECURSIVE TopLevelFrom(_, _, _, _)
TopLevelFrom(toks, i, depth, word) ==
    IF i > Len(toks) THEN {}
    ELSE IF toks[i] = KW("(") THEN TopLevelFrom(toks, i + 1, depth + 1, word)
    ELSE IF toks[i] = KW(")") THEN TopLevelFrom(toks, i + 1, depth - 1, word)
    ELSE (IF depth = 0 /\ toks[i] = KW(word) THEN {i} ELSE {})
            \cup TopLevelFrom(toks, i + 1, depth, word)

TopLevel(toks, word) == TopLevelFrom(toks, 1, 0, word)

First(S) == CHOOSE i \in S : \A j \in S : i <= j

Or3(a, b) ==
    IF a = "error" \/ b = "error" THEN "error"
    ELSE IF a = "true" \/ b = "true" THEN "true" ELSE "false"

And3(a, b) ==
    IF a = "error" \/ b = "error" THEN "error"
    ELSE IF a = "true" /\ b = "true" THEN "true" ELSE "false"

Not3(a) == IF a = "error" THEN "error" ELSE IF a = "true" THEN "false" ELSE "true"

Bool3(b) == IF b THEN "true" ELSE "false"

Last(S) == CHOOSE i \in S : \A j \in S : i >= j

\* the operand a spliced-in text denotes: the source skips the blanks around it
SqlOperand(chars) ==
    LET solid == {i \in 1..Len(chars) : chars[i] # " "}
    IN  IF solid = {} THEN <<>> ELSE SubSeq(chars, First(solid), Last(solid))

\* the value of a boolean SQL expression for a row with that digest_text: OR binds
\* weaker than AND, AND weaker than NOT; "error" is a text the source rejects
RECURSIVE SqlEval(_, _)
SqlEval(toks, text) ==
    LET ors == TopLevel(toks, "or")
        ands == TopLevel(toks, "and")
        n == Len(toks)
    IN  IF ors # {}
        THEN Or3(SqlEval(SubSeq(toks, 1, First(ors) - 1), text),
                 SqlEval(SubSeq(toks, First(ors) + 1, n), text))
        ELSE IF ands # {}
        THEN And3(SqlEval(SubSeq(toks, 1, First(ands) - 1), text),
                  SqlEval(SubSeq(toks, First(ands) + 1, n), text))
        ELSE IF n >= 2 /\ toks[1] = KW("(") /\ toks[n] = KW(")")
        THEN SqlEval(SubSeq(toks, 2, n - 1), text)
        ELSE IF toks = <<KW("(1=1)")>>
        THEN "true"
        ELSE IF n = 3 /\ toks[1] = KW("digest_text") /\ toks[2] = KW("like")
                /\ toks[3].kind = "pat" /\ SqlOperand(toks[3].text) # <<>>
        THEN Bool3(Like(text, SqlOperand(toks[3].text)))
        ELSE IF n = 4 /\ toks[1] = KW("digest_text") /\ toks[2] = KW("not")
                /\ toks[3] = KW("like")
                /\ toks[4].kind = "pat" /\ SqlOperand(toks[4].text) # <<>>
        THEN Not3(Bool3(Like(text, SqlOperand(toks[4].text))))
        ELSE "error"

\* the source rejects the text (the verdict does not depend on the row)
SqlRejected(toks) == SqlEval(toks, <<>>) = "error"

\* --------------------------------------------------- rows of the source

\* rows stats_mysql_connection_pool can hold: 1 and 2 are one backend at two
\* moments, 3 is another backend
CPIds == {1, 2, 3}

CPSample(id) ==
    [hostgroup |-> "hg0",
     srvHost |-> IF id = 3 THEN "db2" ELSE "db1",
     srvPort |-> IF id = 3 THEN 3307 ELSE 3306,
     status |-> IF id = 3 THEN "SHUNNED" ELSE "ONLINE",
     ConnUsed |-> 100 * id + 1,
     ConnFree |-> 100 * id + 2,
     ConnOK |-> 100 * id + 3,
     ConnERR |-> 100 * id + 4,
     MaxConnUsed |-> 100 * id + 5,
     Queries |-> 100 * id + 6,
     QueriesGTIDSync |-> 100 * id + 7,
     BytesDataSent |-> 100 * id + 8,
     BytesDataRecv |-> 100 * id + 9,
     LatencyUs |-> 100 * id + 10]

\* rows stats_mysql_query_digest can aggregate to: three query shapes
QDIds == {1, 2, 3}

QDSample(id) ==
    [hostgroup |-> "hg0",
     schemaname |-> "main",
     digest |-> CASE id = 2 -> "0xB" [] id = 3 -> "0xC" [] OTHER -> "0xA",
     digest_text |-> CASE id = 2 -> <<"b">> [] id = 3 -> <<"a", "b">> [] OTHER -> <<"a">>,
     count_star |-> 10 * id + 1,
     min_time |-> 10 * id + 2,
     max_time |-> 10 * id + 3]

\* fmt.Sprintf("%v", srvPort)
PortText(srvPort) == IF srvPort = 3306 THEN "3306" ELSE "3307"

CPLabels(s) == <<s.hostgroup, s.srvHost, PortText(s.srvPort), s.status>>

QDLabels(s) == <<s.hostgroup, s.schemaname, s.digest, s.digest_text>>

\* ---------------------------------------------------------------- gauges

UpName == "proxysql_up"

CPMetrics ==
    {"proxysql_conn_error", "proxysql_conn_ok", "proxysql_conn_used",
     "proxysql_conn_free", "proxysql_queries", "proxysql_sent_bytes",
     "proxysql_recv_bytes", "proxysql_latency_ns"}

QDMetrics ==
    {"proxysql_query_count_total", "proxysql_query_min_time",
     "proxysql_query_max_time"}

MetricNames == {UpName} \cup CPMetrics \cup QDMetrics

\* a faulty variant of CPValue: conn_ok and conn_err feed each other's gauge
CPValueSwapped(m, s) ==
    CASE m = "proxysql_conn_error" -> s.ConnOK
      [] m = "proxysql_conn_ok" -> s.ConnERR
      [] m = "proxysql_conn_used" -> s.ConnUsed
      [] m = "proxysql_conn_free" -> s.ConnFree
      [] m = "proxysql_queries" -> s.Queries
      [] m = "proxysql_sent_bytes" -> s.BytesDataSent
      [] m = "proxysql_recv_bytes" -> s.BytesDataRecv
      [] m = "proxysql_latency_ns" -> s.LatencyUs

\* the field each connection-pool gauge is set to (lines 282-336)
CPValue(m, s) ==
    CASE m = "proxysql_conn_error" -> s.ConnERR
      [] m = "proxysql_conn_ok" -> s.ConnOK
      [] m = "proxysql_conn_used" -> s.ConnUsed
      [] m = "proxysql_conn_free" -> s.ConnFree
      [] m = "proxysql_queries" -> s.Queries
      [] m = "proxysql_sent_bytes" -> s.BytesDataSent
      [] m = "proxysql_recv_bytes" -> s.BytesDataRecv
      [] m = "proxysql_latency_ns" -> s.LatencyUs

\* a faulty variant of QDValue: proxysql_query_max_time set from min_time
QDValueMaxFromMin(m, s) ==
    CASE m = "proxysql_query_count_total" -> s.count_star
      [] m = "proxysql_query_min_time" -> s.min_time
      [] m = "proxysql_query_max_time" -> s.min_time

\* the field each query-digest gauge is set to (lines 382-401)
QDValue(m, s) ==
    CASE m = "proxysql_query_count_total" -> s.count_star
      [] m = "proxysql_query_min_time" -> s.min_time
      [] m = "proxysql_query_max_time" -> s.max_time

\* a GaugeVec with no child yet
NoChildren == [l \in {} |-> 0]

\* a faulty variant of GaugeSet: Add in place of Set
GaugeAdd(vec, labels, v) ==
    [l \in DOMAIN vec \cup {labels} |->
        IF l = labels
        THEN (IF labels \in DOMAIN vec THEN vec[l] + v ELSE v)
        ELSE vec[l]]

\* vec.With(labels).Set(v): the child is created on first use
GaugeSet(vec, labels, v) ==
    [l \in DOMAIN vec \cup {labels} |-> IF l = labels THEN v ELSE vec[l]]

\* a faulty variant of WriteCP: the Set call of proxysql_latency_ns left out
WriteCPNoLatency(g, s) ==
    [m \in MetricNames |->
        IF m \in CPMetrics \ {"proxysql_latency_ns"}
        THEN GaugeSet(g[m], CPLabels(s), CPValue(m, s))
        ELSE g[m]]

\* the eight Set calls of one connection-pool row
WriteCP(g, s) ==
    [m \in MetricNames |->
        IF m \in CPMetrics THEN GaugeSet(g[m], CPLabels(s), CPValue(m, s)) ELSE g[m]]

\* the three Set calls of one query-digest row
WriteQD(g, s) ==
    [m \in MetricNames |->
        IF m \in QDMetrics THEN GaugeSet(g[m], QDLabels(s), QDValue(m, s)) ELSE g[m]]

\* a faulty variant of WriteUp: a failure deletes the child in place of setting 0
WriteUpDeletes(g, v) ==
    IF v = 0 THEN [g EXCEPT ![UpName] = NoChildren]
             ELSE [g EXCEPT ![UpName] = GaugeSet(@, <<>>, v)]

\* up.With(prometheus.Labels{}).Set(float64(v))
WriteUp(g, v) == [g EXCEPT ![UpName] = GaugeSet(@, <<>>, v)]

UpFailed == 0

UpHealthy == 1

\* ----------------------------------------------------------------- state

VARIABLES
    pc,                 \* where GetStats is (or, under SpecWhere, where makeWhere is)
    lIncludeQPattern,   \* main: strings.Split of INCLUDE_QUERY_PATTERN, or empty
    lExcludeQPattern,   \* main: strings.Split of EXCLUDE_QUERY_PATTERN, or empty
    globalDB,           \* the package's connection handle, Nil before the first open
    opens,              \* successful sql.Open calls so far
    db,                 \* GetStats's local handle
    gauges,             \* metric name -> (label tuple -> value): the registered GaugeVecs
    rows,               \* ids of the rows the open result set still delivers
    rowsEnd,            \* "open" while that result set is read, then how it ended
    sql,                \* the WHERE clause of the query-digest text last built
    calls,              \* this cycle's calls of GetStats, in order, with what they returned
    written,            \* <<pass, label tuple>> of the rows this cycle has written
    upBefore,           \* proxysql_up as the cycle found it
    upWrites,           \* up.Set calls of this cycle
    lastRow,            \* <<pass, label tuple>> -> id of the row that last set its gauges
    overwrote,          \* <<pass, label tuple>> set again, by another row, in one pass
    openSets,           \* result sets of db.Query not closed yet
    lPattern,           \* makeWhere's parameter
    entryType,          \* makeWhere's parameter
    where               \* makeWhere's result

vars ==
    <<pc, lIncludeQPattern, lExcludeQPattern, globalDB, opens, db, gauges, rows,
      rowsEnd, sql, calls, written, upBefore, upWrites, lastRow, overwrote, openSets,
      lPattern, entryType, where>>

whereVars == <<lPattern, entryType, where>>

configVars == <<lIncludeQPattern, lExcludeQPattern>>

rowVars == <<lastRow, overwrote>>

Nil == 0

\* what main can hand to GetStats: an unset variable leaves the list empty, a set
\* one is split at its commas (an empty value gives one empty pattern)
IncludeConfigs == {<<>>, <<<<"a", "%">>>>, <<<<>>>>, <<<<" ">>>>}

ExcludeConfigs == {<<>>, <<<<"a">>>>, <<<<"a">>, <<>>>>}

\* proxysql_up as a scrape would see it: <<>> while the gauge has no child
UpOf(g) == IF <<>> \in DOMAIN g[UpName] THEN <<g[UpName][<<>>]>> ELSE <<>>

Up == UpOf(gauges)

Init ==
    /\ pc = "NewConnect"
    /\ lIncludeQPattern \in IncludeConfigs
    /\ lExcludeQPattern \in ExcludeConfigs
    /\ globalDB = Nil
    /\ opens = 0
    /\ db = Nil
    /\ gauges = [m \in MetricNames |-> NoChildren]
    /\ rows = <<>>
    /\ rowsEnd = "eof"
    /\ sql = <<>>
    /\ calls = <<>>
    /\ written = {}
    /\ upBefore = <<>>
    /\ upWrites = 0
    /\ lastRow = [k \in {} |-> 0]
    /\ overwrote = {}
    /\ openSets = 0
    /\ lPattern = <<>>
    /\ entryType = TRUE
    /\ where = <<>>

\* the row that has now set the gauges of key last
Processed(last, key, id) ==
    [k \in DOMAIN last \cup {key} |-> IF k = key THEN id ELSE last[k]]

\* {key} when this pass already set the gauges of key from another row
Replaced(key, id) ==
    IF key \in written /\ lastRow[key] # id THEN {key} ELSE {}

\* ------------------------------------------------------------- NewConnect

\* a faulty variant of NewConnect: the nil test of line 163 dropped
NewConnectReopen(gdb, n, openOK) ==
    IF openOK
    THEN [globalDB |-> n + 1, db |-> n + 1, err |-> FALSE, opens |-> n + 1]
    ELSE [globalDB |-> Nil, db |-> Nil, err |-> TRUE, opens |-> n]

\* openOK: whether sql.Open succeeds, should it be called; n: opens so far
NewConnect(gdb, n, openOK) ==
    IF gdb = Nil
    THEN IF openOK
         THEN [globalDB |-> n + 1, db |-> n + 1, err |-> FALSE, opens |-> n + 1]
         ELSE [globalDB |-> Nil, db |-> Nil, err |-> TRUE, opens |-> n]
    ELSE [globalDB |-> gdb, db |-> gdb, err |-> FALSE, opens |-> n]

Call(fn, err, fault) == [fn |-> fn, err |-> err, fault |-> fault]

\* a faulty variant of FailCycle: the failure branch sets the gauge to 1
FailCycleHealthy(fn, fault) ==
    /\ calls' = Append(calls, Call(fn, TRUE, fault))
    /\ gauges' = WriteUp(gauges, UpHealthy)
    /\ upWrites' = upWrites + 1
    /\ pc' = "Sleep"

\* a faulty variant of FailCycle: the failure branch also drops the labeled children
FailCycleRollback(fn, fault) ==
    /\ calls' = Append(calls, Call(fn, TRUE, fault))
    /\ gauges' = WriteUp([m \in MetricNames |->
                             IF m = UpName THEN gauges[m] ELSE NoChildren],
                         UpFailed)
    /\ upWrites' = upWrites + 1
    /\ pc' = "Sleep"

\* a faulty variant of FailCycle: the failure branch continues without its sleep
FailCycleNoSleep(fn, fault) ==
    /\ calls' = Append(calls, Call(fn, TRUE, fault))
    /\ gauges' = WriteUp(gauges, UpFailed)
    /\ upWrites' = upWrites + 1
    /\ pc' = "NewConnect"

\* lines 212-216, 220-224, 228-232: liveness 0, then the sleep
FailCycle(fn, fault) ==
    /\ calls' = Append(calls, Call(fn, TRUE, fault))
    /\ gauges' = WriteUp(gauges, UpFailed)
    /\ upWrites' = upWrites + 1
    /\ pc' = "Sleep"

\* lines 211-217: acquire succeeded
ConnectOK ==
    /\ pc = "NewConnect"
    /\ \E openOK \in BOOLEAN :
         LET r == NewConnect(globalDB, opens, openOK)
         IN  /\ ~r.err
             /\ globalDB' = r.globalDB
             /\ opens' = r.opens
             /\ db' = r.db
    /\ calls' = Append(calls, Call("NewConnect", FALSE, "none"))
    /\ pc' = "GetStatConnectionPool"
    /\ UNCHANGED <<gauges, rows, rowsEnd, sql, written, upBefore>>
    /\ UNCHANGED <<configVars, whereVars, rowVars, upWrites, openSets>>

\* a faulty variant of ConnectErr: a failed acquire ends the process (log.Fatal)
ConnectErrFatal ==
    /\ pc = "NewConnect"
    /\ \E openOK \in BOOLEAN :
         LET r == NewConnect(globalDB, opens, openOK)
         IN  /\ r.err
             /\ globalDB' = r.globalDB
             /\ opens' = r.opens
             /\ db' = r.db
    /\ calls' = Append(calls, Call("NewConnect", TRUE, "open"))
    /\ pc' = "Exited"
    /\ UNCHANGED <<gauges, rows, rowsEnd, sql, written, upBefore>>
    /\ UNCHANGED <<configVars, whereVars, rowVars, upWrites, openSets>>

\* lines 211-217: acquire failed
ConnectErr ==
    /\ pc = "NewConnect"
    /\ \E openOK \in BOOLEAN :
         LET r == NewConnect(globalDB, opens, openOK)
         IN  /\ r.err
             /\ globalDB' = r.globalDB
             /\ opens' = r.opens
             /\ db' = r.db
    /\ FailCycle("NewConnect", "open")
    /\ UNCHANGED <<rows, rowsEnd, sql, written, upBefore>>
    /\ UNCHANGED <<configVars, whereVars, rowVars, openSets>>

\* ---------------------------------------------------- GetStatConnectionPool

\* how the reading of a result set can end: every row delivered ("eof"), a next
\* row whose Scan fails ("scan"), or retrieval broken off, so that rows.Next()
\* returns false with rows.Err() set ("rows")
Endings == {"eof", "scan", "rows"}

CPResults == SeqsUpTo(CPIds, MaxRows)

\* a faulty variant of CPQueryErr: the failed query also drops the labeled children
CPQueryErrClears ==
    /\ pc = "GetStatConnectionPool"
    /\ calls' = Append(calls, Call("GetStatConnectionPool", TRUE, "query"))
    /\ gauges' = WriteUp([m \in MetricNames |->
                             IF m = UpName THEN gauges[m] ELSE NoChildren],
                         UpFailed)
    /\ upWrites' = upWrites + 1
    /\ pc' = "Sleep"
    /\ UNCHANGED <<globalDB, opens, db, rows, rowsEnd, sql, written, upBefore>>
    /\ UNCHANGED <<configVars, whereVars, rowVars, openSets>>

\* a faulty variant of CPQueryErr: the failed query is tried again at once
CPQueryErrRetry ==
    /\ pc = "GetStatConnectionPool"
    /\ calls' = Append(calls, Call("GetStatConnectionPool", TRUE, "query"))
    /\ UNCHANGED <<pc, globalDB, opens, db, gauges, rows, rowsEnd, sql, written, upBefore>>
    /\ UNCHANGED <<configVars, whereVars, rowVars, upWrites, openSets>>

\* line 253: db.Query failed
CPQueryErr ==
    /\ pc = "GetStatConnectionPool"
    /\ FailCycle("GetStatConnectionPool", "query")
    /\ UNCHANGED <<globalDB, opens, db, rows, rowsEnd, sql, written, upBefore>>
    /\ UNCHANGED <<configVars, whereVars, rowVars, openSets>>

\* a faulty variant of CPQueryOK: the connection-pool gauges are reset before each pass
CPQueryOKReset ==
    /\ pc = "GetStatConnectionPool"
    /\ rows' \in CPResults
    /\ rowsEnd' = "open"
    /\ openSets < MaxOpenSets
    /\ openSets' = openSets + 1
    /\ pc' = "CPRows"
    /\ gauges' = [m \in MetricNames |->
                     IF m \in CPMetrics THEN NoChildren ELSE gauges[m]]
    /\ UNCHANGED <<globalDB, opens, db, sql, calls, written, upBefore>>
    /\ UNCHANGED <<configVars, whereVars, rowVars, upWrites>>

\* line 253: db.Query returned a result set
CPQueryOK ==
    /\ pc = "GetStatConnectionPool"
    /\ rows' \in CPResults
    /\ rowsEnd' = "open"
    /\ openSets < MaxOpenSets
    /\ openSets' = openSets + 1
    /\ pc' = "CPRows"
    /\ UNCHANGED <<globalDB, opens, db, gauges, sql, calls, written, upBefore>>
    /\ UNCHANGED <<configVars, whereVars, rowVars, upWrites>>

\* lines 258-337: one turn of the loop, the row scanned and its gauges set
CPRow ==
    /\ pc = "CPRows"
    /\ rows # <<>>
    /\ gauges' = WriteCP(gauges, CPSample(Head(rows)))
    /\ written' = written \cup {<<"cp", CPLabels(CPSample(Head(rows)))>>}
    /\ lastRow' = Processed(lastRow, <<"cp", CPLabels(CPSample(Head(rows)))>>, Head(rows))
    /\ overwrote' = overwrote \cup Replaced(<<"cp", CPLabels(CPSample(Head(rows)))>>,
                                            Head(rows))
    /\ rows' = Tail(rows)
    /\ UNCHANGED <<pc, globalDB, opens, db, rowsEnd, sql, calls, upBefore>>
    /\ UNCHANGED <<configVars, whereVars, upWrites, openSets>>

\* a faulty variant of CPScanErr: the first gauge of the row is set before the
\* failure is noticed
CPScanErrPartial ==
    /\ pc = "CPRows"
    /\ rows # <<>>
    /\ rowsEnd' = "scan"
    /\ rows' = <<>>
    /\ calls' = Append(calls, Call("GetStatConnectionPool", TRUE, "scan"))
    /\ gauges' = WriteUp([gauges EXCEPT !["proxysql_conn_error"] =
                             GaugeSet(@, CPLabels(CPSample(Head(rows))),
                                      CPSample(Head(rows)).ConnERR)],
                         UpFailed)
    /\ upWrites' = upWrites + 1
    /\ pc' = "Sleep"
    /\ UNCHANGED <<globalDB, opens, db, sql, written, upBefore>>
    /\ UNCHANGED <<configVars, whereVars, rowVars, openSets>>

\* a faulty variant of CPScanErr: GetStats ignores the error of the pass and goes on
CPScanErrIgnored ==
    /\ pc = "CPRows"
    /\ rows # <<>>
    /\ rowsEnd' = "scan"
    /\ rows' = <<>>
    /\ calls' = Append(calls, Call("GetStatConnectionPool", TRUE, "scan"))
    /\ pc' = "GetStatQueryDigest"
    /\ UNCHANGED <<globalDB, opens, db, gauges, sql, written, upBefore>>
    /\ UNCHANGED <<configVars, whereVars, rowVars, upWrites, openSets>>

\* lines 275-278: rows.Scan failed on the next row; the pass returns with the
\* result set still open, its other rows never read
CPScanErr ==
    /\ pc = "CPRows"
    /\ rows # <<>>
    /\ rowsEnd' = "scan"
    /\ rows' = <<>>
    /\ FailCycle("GetStatConnectionPool", "scan")
    /\ UNCHANGED <<globalDB, opens, db, sql, written, upBefore>>
    /\ UNCHANGED <<configVars, whereVars, rowVars, openSets>>

\* lines 258, 338: rows.Next() returned false, which closes the result set; the
\* pass returns nil
CPReturn ==
    /\ pc = "CPRows"
    /\ rows = <<>>
    /\ rowsEnd' \in Endings \ {"scan"}
    /\ openSets' = openSets - 1
    /\ calls' = Append(calls, Call("GetStatConnectionPool", FALSE,
                                   IF rowsEnd' = "rows" THEN "rows" ELSE "none"))
    /\ pc' = "GetStatQueryDigest"
    /\ UNCHANGED <<globalDB, opens, db, gauges, rows, sql, written, upBefore>>
    /\ UNCHANGED <<configVars, whereVars, rowVars, upWrites>>

\* ------------------------------------------------------- GetStatQueryDigest

\* limit 10
RowLimit == 10

\* group by makes the label tuples of one result distinct
QDTables ==
    {t \in SeqsUpTo(QDIds, MaxDigests) :
        \A i, j \in 1..Len(t) :
            QDLabels(QDSample(t[i])) = QDLabels(QDSample(t[j])) => i = j}

\* where (1=1) %s %s
WhereClause(include, exclude) == <<KW("(1=1)")>> \o include \o exclude

\* the rows of the table the source delivers for that WHERE clause
Selected(table, clause) ==
    LET kept == SelectSeq(table,
                    LAMBDA id : SqlEval(clause, QDSample(id).digest_text) = "true")
    IN  SubSeq(kept, 1, IF Len(kept) < RowLimit THEN Len(kept) ELSE RowLimit)

Include == makeWhere(lIncludeQPattern, TRUE)

Exclude == makeWhere(lExcludeQPattern, FALSE)

\* line 357: makeWhere called os.Exit(1) while the text was built
QDExit ==
    /\ pc = "GetStatQueryDigest"
    /\ Include.exit \/ Exclude.exit
    /\ pc' = "Exited"
    /\ UNCHANGED <<globalDB, opens, db, gauges, rows, rowsEnd, sql, calls, written,
                   upBefore>>
    /\ UNCHANGED <<configVars, whereVars, rowVars, upWrites, openSets>>

\* line 360: db.Query failed (the source cannot be reached, or rejects the text)
QDQueryErr ==
    /\ pc = "GetStatQueryDigest"
    /\ ~(Include.exit \/ Exclude.exit)
    /\ sql' = WhereClause(Include.where, Exclude.where)
    /\ FailCycle("GetStatQueryDigest", "query")
    /\ UNCHANGED <<globalDB, opens, db, rows, rowsEnd, written, upBefore>>
    /\ UNCHANGED <<configVars, whereVars, rowVars, openSets>>

\* line 360: db.Query returned a result set
QDQueryOK ==
    /\ pc = "GetStatQueryDigest"
    /\ ~(Include.exit \/ Exclude.exit)
    /\ sql' = WhereClause(Include.where, Exclude.where)
    /\ ~SqlRejected(sql')
    /\ \E table \in QDTables : rows' = Selected(table, sql')
    /\ rowsEnd' = "open"
    /\ openSets < MaxOpenSets
    /\ openSets' = openSets + 1
    /\ pc' = "QDRows"
    /\ UNCHANGED <<globalDB, opens, db, gauges, calls, written, upBefore>>
    /\ UNCHANGED <<configVars, whereVars, rowVars, upWrites>>

\* lines 365-402: one turn of the loop, the row scanned and its gauges set
QDRow ==
    /\ pc = "QDRows"
    /\ rows # <<>>
    /\ gauges' = WriteQD(gauges, QDSample(Head(rows)))
    /\ written' = written \cup {<<"qd", QDLabels(QDSample(Head(rows)))>>}
    /\ lastRow' = Processed(lastRow, <<"qd", QDLabels(QDSample(Head(rows)))>>, Head(rows))
    /\ overwrote' = overwrote \cup Replaced(<<"qd", QDLabels(QDSample(Head(rows)))>>,
                                            Head(rows))
    /\ rows' = Tail(rows)
    /\ UNCHANGED <<pc, globalDB, opens, db, rowsEnd, sql, calls, upBefore>>
    /\ UNCHANGED <<configVars, whereVars, upWrites, openSets>>

\* lines 375-378: rows.Scan failed on the next row; the pass returns with the
\* result set still open, its other rows never read
QDScanErr ==
    /\ pc = "QDRows"
    /\ rows # <<>>
    /\ rowsEnd' = "scan"
    /\ rows' = <<>>
    /\ FailCycle("GetStatQueryDigest", "scan")
    /\ UNCHANGED <<globalDB, opens, db, sql, written, upBefore>>
    /\ UNCHANGED <<configVars, whereVars, rowVars, openSets>>

\* lines 365, 403, 235-237: rows.Next() returned false, which closes the result
\* set; the pass returns nil, liveness 1, then the sleep
QDReturn ==
    /\ pc = "QDRows"
    /\ rows = <<>>
    /\ rowsEnd' \in Endings \ {"scan"}
    /\ openSets' = openSets - 1
    /\ calls' = Append(calls, Call("GetStatQueryDigest", FALSE,
                                   IF rowsEnd' = "rows" THEN "rows" ELSE "none"))
    /\ gauges' = WriteUp(gauges, UpHealthy)
    /\ upWrites' = upWrites + 1
    /\ pc' = "Sleep"
    /\ UNCHANGED <<globalDB, opens, db, rows, sql, written, upBefore>>
    /\ UNCHANGED <<configVars, whereVars, rowVars>>

\* time.Sleep returns and the loop starts over
Sleep ==
    /\ pc = "Sleep"
    /\ pc' = "NewConnect"
    /\ calls' = <<>>
    /\ written' = {}
    /\ upBefore' = Up
    /\ upWrites' = 0
    /\ overwrote' = {}
    /\ UNCHANGED <<globalDB, opens, db, gauges, rows, rowsEnd, sql>>
    /\ UNCHANGED <<configVars, whereVars, lastRow, openSets>>

Next ==
    \/ ConnectOK
    \/ ConnectErr
    \/ CPQueryErr
    \/ CPQueryOK
    \/ CPRow
    \/ CPScanErr
    \/ CPReturn
    \/ QDExit
    \/ QDQueryErr
    \/ QDQueryOK
    \/ QDRow
    \/ QDScanErr
    \/ QDReturn
    \/ Sleep

Spec == Init /\ [][Next]_vars

\* the goroutine of line 154 keeps running: a call that was made returns, a sleep
\* that was started ends, and the statement after it is executed
FairSpec == Spec /\ WF_vars(Next)

\* ------------------------------------------------- makeWhere on its own

\* makeWhere about to be called on any list of patterns, in either mode
InitWhere ==
    /\ pc = "makeWhere"
    /\ lPattern \in PatternLists
    /\ entryType \in BOOLEAN
    /\ where = <<>>
    /\ lIncludeQPattern = <<>>
    /\ lExcludeQPattern = <<>>
    /\ globalDB = Nil
    /\ opens = 0
    /\ db = Nil
    /\ gauges = [m \in MetricNames |-> NoChildren]
    /\ rows = <<>>
    /\ rowsEnd = "eof"
    /\ sql = <<>>
    /\ calls = <<>>
    /\ written = {}
    /\ upBefore = <<>>
    /\ upWrites = 0
    /\ lastRow = [k \in {} |-> 0]
    /\ overwrote = {}
    /\ openSets = 0

loopVars ==
    <<lIncludeQPattern, lExcludeQPattern, globalDB, opens, db, gauges, rows, rowsEnd,
      sql, calls, written, upBefore, upWrites, lastRow, overwrote, openSets>>

\* line 203: the fragment is returned
MakeWhereReturn ==
    /\ pc = "makeWhere"
    /\ ~makeWhere(lPattern, entryType).exit
    /\ where' = makeWhere(lPattern, entryType).where
    /\ pc' = "return"
    /\ UNCHANGED <<lPattern, entryType, loopVars>>

\* line 198: os.Exit(1)
MakeWhereExit ==
    /\ pc = "makeWhere"
    /\ makeWhere(lPattern, entryType).exit
    /\ pc' = "Exited"
    /\ UNCHANGED <<lPattern, entryType, where, loopVars>>

NextWhere == MakeWhereReturn \/ MakeWhereExit

SpecWhere == InitWhere /\ [][NextWhere]_vars

\* ------------------------------------------------------------ the cycle

\* acquire and both passes were called, in that order, and each returned nil
AllReturnedNil ==
    /\ Len(calls) = 3
    /\ calls[1].fn = "NewConnect"
    /\ calls[2].fn = "GetStatConnectionPool"
    /\ calls[3].fn = "GetStatQueryDigest"
    /\ \A i \in 1..3 : ~calls[i].err

\* a call of this cycle returned an error
CycleFailed == \E i \in 1..Len(calls) : calls[i].err

LabeledMetrics == CPMetrics \cup QDMetrics

PassOf(m) == IF m \in CPMetrics THEN "cp" ELSE "qd"

\* the label tuples of metric m that the step about to be taken sets
SetByStep(m) ==
    IF pc = "CPRows" /\ rows # <<>> /\ m \in CPMetrics
    THEN {CPLabels(CPSample(Head(rows)))}
    ELSE IF pc = "QDRows" /\ rows # <<>> /\ m \in QDMetrics
    THEN {QDLabels(QDSample(Head(rows)))}
    ELSE {}

\* C1: whenever the loop sleeps between cycles, proxysql_up is 1 if acquire, the
\* connection-pool pass and the query-digest pass all returned success in the
\* cycle that just ended, and 0 otherwise.
C1_UpIffAllReturnedNil ==
    pc = "Sleep" =>
        /\ AllReturnedNil => Up = <<1>>
        /\ ~AllReturnedNil => Up = <<0>>

\* a failed cycle right after a healthy one
C1_Witness ==
    /\ pc = "Sleep"
    /\ upBefore = <<1>>
    /\ ~AllReturnedNil
    /\ Up = <<0>>

\* C2: no query-execution failure, row-scan failure or break-off of row
\* retrieval in a pass lets the cycle end with proxysql_up = 1.
C2_NoFailureReachesHealthy ==
    (pc = "Sleep" /\ \E i \in 1..Len(calls) : calls[i].fault \in {"query", "scan", "rows"})
        => Up = <<0>>

FailedCall == calls[Len(calls)]

C4_EntriesNeverRemoved ==
    [][\A m \in LabeledMetrics :
         \A l \in DOMAIN gauges[m] :
            /\ l \in DOMAIN gauges'[m]
            /\ l \notin SetByStep(m) => gauges'[m][l] = gauges[m][l]]_vars

\* a healthy cycle has ended and the sink holds an entry whose label tuple the
\* cycle did not deliver
C4_Witness ==
    /\ pc = "Sleep"
    /\ AllReturnedNil
    /\ \E m \in LabeledMetrics :
         \E l \in DOMAIN gauges[m] : <<PassOf(m), l>> \notin written

\* C5: sql.Open succeeds at most once; once globalDB is set no step changes it
\* or opens again, and every acquire hands GetStats that handle.
C5_HandleOpenedOnce ==
    [][/\ globalDB # Nil => (globalDB' = globalDB /\ opens' = opens)
       /\ opens' <= 1
       /\ (pc = "NewConnect" /\ pc' = "GetStatConnectionPool")
             => (db' = globalDB' /\ db' # Nil)]_vars

\* acquire has returned the handle in a cycle that follows one that failed after
\* writing rows read through that handle
C5_Witness ==
    /\ pc = "GetStatConnectionPool"
    /\ upBefore = <<0>>
    /\ opens = 1
    /\ db = globalDB
    /\ \E m \in CPMetrics : DOMAIN gauges[m] # {}

\* ------------------------------------------------------- the filter lists

\* a pattern that is empty once the blanks around it are cut off
EmptyAfterTrim(pattern) == \A i \in 1..Len(pattern) : pattern[i] = " "

HasEmptyAfterTrim(lPat) == \E i \in 1..Len(lPat) : EmptyAfterTrim(lPat[i])

\* the row with that digest_text satisfies the fragment, set after the base
\* predicate of the query
Satisfies(text, fragment) == SqlEval(<<KW("(1=1)")>> \o fragment, text) = "true"

\* the row with that digest_text matches the pattern
MatchesPattern(text, pattern) == Like(text, SqlOperand(pattern))

\* the operands of a fragment, in order
Operands(fragment) == SelectSeq(fragment, LAMBDA t : t.kind = "pat")

\* the join words of a fragment: every "and" and "or" after its opening "and ("
JoinWords(fragment) ==
    SelectSeq(SubSeq(fragment, 2, Len(fragment)),
              LAMBDA t : t \in {KW("and"), KW("or")})

\* C6: makeWhere never returns for a list that holds a pattern empty after
\* trimming (a pattern of blanks included): the process exits.
C6_EmptyAfterTrimIsFatal ==
    (pc # "makeWhere" /\ HasEmptyAfterTrim(lPattern)) => pc = "Exited"

\* C7: with a pattern empty after trimming in either list, no query is issued:
\* the loop is never past the call of db.Query of either pass.
C7_NoQueryBeforeExit ==
    (HasEmptyAfterTrim(lIncludeQPattern) \/ HasEmptyAfterTrim(lExcludeQPattern))
        => /\ pc \notin {"CPRows", "QDRows"}
           /\ \A i \in 1..Len(calls) : calls[i].fn = "NewConnect"

\* C8: for a non-empty include list whose patterns are not empty (after
\* trimming), makeWhere returns "and (" ... ")" holding one un-negated like
\* clause per pattern, in list order, joined by "or"; a row satisfies the
\* fragment exactly when its digest_text matches a pattern of the list.
C8_IncludeFragment ==
    (pc # "makeWhere" /\ entryType /\ lPattern # <<>> /\ ~HasEmptyAfterTrim(lPattern))
        => /\ pc = "return"
           /\ where[1] = KW("and") /\ where[2] = KW("(")
           /\ where[Len(where)] = KW(")")
           /\ KW("not") \notin {where[i] : i \in 1..Len(where)}
           /\ Len(Operands(where)) = Len(lPattern)
           /\ \A i \in 1..Len(lPattern) :
                SqlOperand(Operands(where)[i].text) = SqlOperand(lPattern[i])
           /\ JoinWords(where) = [i \in 1..(Len(lPattern) - 1) |-> KW("or")]
           /\ \A text \in DigestTexts :
                Satisfies(text, where)
                    <=> \E i \in 1..Len(lPattern) : MatchesPattern(text, lPattern[i])

\* an include fragment of two different patterns has been returned
C8_Witness ==
    /\ pc = "return"
    /\ entryType
    /\ Len(lPattern) = 2
    /\ ~HasEmptyAfterTrim(lPattern)
    /\ SqlOperand(lPattern[1]) # SqlOperand(lPattern[2])
    /\ \E text \in DigestTexts :
         MatchesPattern(text, lPattern[2]) /\ ~MatchesPattern(text, lPattern[1])

\* C9: for a non-empty exclude list whose patterns are not empty (after
\* trimming), a row satisfies the fragment makeWhere returns exactly when its
\* digest_text matches no pattern of the list.
C9_ExcludeFragment ==
    (pc # "makeWhere" /\ ~entryType /\ lPattern # <<>> /\ ~HasEmptyAfterTrim(lPattern))
        => /\ pc = "return"
           /\ \A text \in DigestTexts :
                Satisfies(text, where)
                    <=> ~\E i \in 1..Len(lPattern) : MatchesPattern(text, lPattern[i])

\* an exclude fragment of two patterns has been returned, and some row matches
\* one pattern and not the other
C9_Witness ==
    /\ pc = "return"
    /\ ~entryType
    /\ Len(lPattern) = 2
    /\ ~HasEmptyAfterTrim(lPattern)
    /\ \E text \in DigestTexts :
         MatchesPattern(text, lPattern[1]) /\ ~MatchesPattern(text, lPattern[2])

\* the parenthesised groups that follow the base predicate in the WHERE clause
Groups(clause) == TopLevel(clause, "and")

\* C10: an empty list adds nothing to the WHERE clause, in either mode; with
\* both lists empty the clause is the base predicate alone and every row
\* satisfies it.
C10_EmptyListNoFilter ==
    sql # <<>> =>
        /\ Cardinality(Groups(sql)) =
               (IF lIncludeQPattern = <<>> THEN 0 ELSE 1)
             + (IF lExcludeQPattern = <<>> THEN 0 ELSE 1)
        /\ (lIncludeQPattern = <<>> /\ lExcludeQPattern = <<>>) =>
               /\ sql = <<KW("(1=1)")>>
               /\ \A text \in DigestTexts : SqlEval(sql, text) = "true"

\* with both lists empty the query has delivered rows of both digest texts
C10_Witness ==
    /\ pc = "QDRows"
    /\ lIncludeQPattern = <<>>
    /\ lExcludeQPattern = <<>>
    /\ sql = <<KW("(1=1)")>>
    /\ Len(rows) = 2
    /\ QDSample(rows[1]).digest_text # QDSample(rows[2]).digest_text

\* ------------------------------------------------------- the two passes

\* C11: a scanned connection-pool row sets each published connection-pool metric
\* to its own field of that row (conn_err to proxysql_conn_error, conn_ok to
\* proxysql_conn_ok, conn_used to proxysql_conn_used, conn_free to
\* proxysql_conn_free, queries to proxysql_queries, bytes_sent to
\* proxysql_sent_bytes, bytes_recv to proxysql_recv_bytes, latency_us to
\* proxysql_latency_ns) under the row's label tuple (hostgroup, srv_host,
\* srv_port, status), and writes under no other label tuple and no other metric.
C11_RowSetsOwnFields ==
    [][(pc = "CPRows" /\ rows # <<>> /\ pc' = "CPRows") =>
          LET s == CPSample(Head(rows))
              l == <<s.hostgroup, s.srvHost, PortText(s.srvPort), s.status>>
          IN  /\ gauges'["proxysql_conn_error"][l] = s.ConnERR
              /\ gauges'["proxysql_conn_ok"][l] = s.ConnOK
              /\ gauges'["proxysql_conn_used"][l] = s.ConnUsed
              /\ gauges'["proxysql_conn_free"][l] = s.ConnFree
              /\ gauges'["proxysql_queries"][l] = s.Queries
              /\ gauges'["proxysql_sent_bytes"][l] = s.BytesDataSent
              /\ gauges'["proxysql_recv_bytes"][l] = s.BytesDataRecv
              /\ gauges'["proxysql_latency_ns"][l] = s.LatencyUs
              /\ \A m \in MetricNames : \A k \in DOMAIN gauges'[m] :
                    (m \notin CPMetrics \/ k # l) =>
                        /\ k \in DOMAIN gauges[m]
                        /\ gauges'[m][k] = gauges[m][k]]_vars

\* one pass has set the gauges of two backends, each from its own row
C11_Witness ==
    /\ pc = "CPRows"
    /\ written = {<<"cp", CPLabels(CPSample(1))>>, <<"cp", CPLabels(CPSample(3))>>}
    /\ gauges["proxysql_conn_error"][CPLabels(CPSample(1))] = CPSample(1).ConnERR
    /\ gauges["proxysql_conn_error"][CPLabels(CPSample(3))] = CPSample(3).ConnERR
    /\ gauges["proxysql_latency_ns"][CPLabels(CPSample(3))] = CPSample(3).LatencyUs

\* every <<metric, label tuple>> of a labeled metric that holds a value
LabeledValues == UNION {{<<m, l>> : l \in DOMAIN gauges[m]} : m \in LabeledMetrics}

\* the label tuples this cycle has written in pass p
WrittenIn(p) == {w \in written : w[1] = p}

\* the process's first cycle has ended healthy after a connection-pool result of
\* two label tuples and a query-digest result of three
FirstCycleTwoAndThree ==
    /\ pc = "Sleep"
    /\ upBefore = <<>>
    /\ AllReturnedNil
    /\ \A i \in 1..3 : calls[i].fault = "none"
    /\ Cardinality(WrittenIn("cp")) = 2
    /\ Cardinality(WrittenIn("qd")) = 3

\* C12 as stated: from an empty sink, one successful cycle over two
\* connection-pool rows and three query-digest rows, all of distinct label
\* tuples, leaves exactly 2*7 + 3*3 = 23 labeled values.
C12_TwentyThreeValues ==
    FirstCycleTwoAndThree => Cardinality(LabeledValues) = 2 * 7 + 3 * 3

\* C12, amended: that cycle leaves exactly 2*8 + 3*3 = 25 labeled values, eight
\* for each connection-pool row and three for each query-digest row.
C12_TwentyFiveValues ==
    FirstCycleTwoAndThree =>
        /\ Cardinality(LabeledValues) = 2 * 8 + 3 * 3
        /\ \A m \in CPMetrics : Cardinality(DOMAIN gauges[m]) = 2
        /\ \A m \in QDMetrics : Cardinality(DOMAIN gauges[m]) = 3

\* such a cycle has ended
C12_Witness ==
    /\ FirstCycleTwoAndThree
    /\ DOMAIN gauges["proxysql_conn_ok"] = {CPLabels(CPSample(1)), CPLabels(CPSample(3))}
    /\ DOMAIN gauges["proxysql_query_max_time"] =
           {QDLabels(QDSample(1)), QDLabels(QDSample(2)), QDLabels(QDSample(3))}

\* GetStatQueryDigest has returned in this cycle
QDCalled == \E i \in 1..Len(calls) : calls[i].fn = "GetStatQueryDigest"

\* GetStatConnectionPool has returned in this cycle
CPCalled == \E i \in 1..Len(calls) : calls[i].fn = "GetStatConnectionPool"

\* C13: in each cycle the connection-pool pass runs strictly before the
\* query-digest pass: the query-digest query is issued only after the
\* connection-pool pass of the same cycle has returned success, and the two
\* passes never overlap.
C13_PoolPassBeforeDigestPass ==
    /\ (pc \in {"GetStatQueryDigest", "QDRows"} \/ QDCalled \/ WrittenIn("qd") # {}) =>
          /\ Len(calls) >= 2
          /\ calls[2] = Call("GetStatConnectionPool", FALSE, calls[2].fault)
          /\ \A i \in 1..Len(calls) : calls[i].fn = "GetStatQueryDigest" => i = 3
    /\ pc \in {"GetStatConnectionPool", "CPRows"} =>
          /\ ~CPCalled
          /\ ~QDCalled
          /\ WrittenIn("qd") = {}
    /\ pc = "QDRows" => ~QDCalled

\* the query-digest pass is delivering rows after a connection-pool pass that
\* set gauges and returned nil
C13_Witness ==
    /\ pc = "QDRows"
    /\ rows # <<>>
    /\ WrittenIn("cp") # {}
    /\ WrittenIn("qd") # {}
    /\ calls[2] = Call("GetStatConnectionPool", FALSE, "none")

\* --------------------------------------------------------- the loop goes on

\* neither list holds a pattern of no characters
NoEmptyEntry ==
    /\ \A i \in 1..Len(lIncludeQPattern) : Len(lIncludeQPattern[i]) > 0
    /\ \A i \in 1..Len(lExcludeQPattern) : Len(lExcludeQPattern[i]) > 0

\* C14: with pattern lists that contain no empty entry the loop has no terminal
\* state: no error ends the process, and from every reachable state the loop, as
\* long as its steps are taken, sleeps again and enters the acquire again,
\* however many cycles in a row fail.
C14_LoopNeverStops ==
    /\ [](NoEmptyEntry => pc # "Exited")
    /\ []<>(NoEmptyEntry => pc = "Sleep")
    /\ []<>(NoEmptyEntry => pc = "NewConnect")

\* a cycle begins after a failed cycle, under lists with no empty entry, one of
\* them with a pattern the source rejects
C14_Witness ==
    /\ NoEmptyEntry
    /\ lIncludeQPattern = <<<<" ">>>>
    /\ pc = "NewConnect"
    /\ upBefore = <<0>>
    /\ Up = <<0>>

\* ------------------------------------------------ the text of a fragment

\* a fragment of n clauses of k tokens each, each token named: "and (", then
\* the clauses with the join word between them, then ")"
ClauseAt(fragment, k, i) == SubSeq(fragment, 3 + (k + 1) * (i - 1), 2 + (k + 1) * i - 1)

JoinAt(fragment, k, i) == fragment[2 + (k + 1) * i]

\* makeWhere has returned the fragment of a non-empty exclude list
ExcludeReturned == pc = "return" /\ ~entryType /\ lPattern # <<>>

\* C15 as stated: the exclude fragment joins its clauses with "or", as the
\* include fragment does: "and (digest_text not like p1 or digest_text not
\* like p2 ...)".
C15_ExcludeJoinedByOr ==
    ExcludeReturned =>
        /\ Len(where) = 2 + 5 * Len(lPattern)
        /\ \A i \in 1..Len(lPattern) :
              SubSeq(ClauseAt(where, 4, i), 1, 3)
                  = <<KW("digest_text"), KW("not"), KW("like")>>
        /\ \A i \in 1..(Len(lPattern) - 1) : JoinAt(where, 4, i) = KW("or")

\* C15, amended: the exclude fragment negates every clause with "not" and joins
\* the clauses with "and": "and (digest_text not like p1 and digest_text not
\* like p2 ...)".
C15_ExcludeJoinedByAnd ==
    ExcludeReturned =>
        /\ Len(where) = 2 + 5 * Len(lPattern)
        /\ where[1] = KW("and") /\ where[2] = KW("(")
        /\ where[Len(where)] = KW(")")
        /\ \A i \in 1..Len(lPattern) :
              SubSeq(ClauseAt(where, 4, i), 1, 3)
                  = <<KW("digest_text"), KW("not"), KW("like")>>
        /\ \A i \in 1..(Len(lPattern) - 1) : JoinAt(where, 4, i) = KW("and")
        /\ JoinWords(where) = [i \in 1..(Len(lPattern) - 1) |-> KW("and")]

\* the exclude fragment of two patterns has been returned
C15_Witness ==
    /\ ExcludeReturned
    /\ Len(lPattern) = 2
    /\ where[7] = KW("and")
    /\ where[4] = KW("not") /\ where[9] = KW("not")

\* the blanks at both ends of a pattern cut off, every other character kept
WithoutOuterBlanks(pattern) ==
    CHOOSE t \in SeqsUpTo(PatChars, Len(pattern)) :
        /\ \E a, b \in 0..Len(pattern) :
              pattern = [k \in 1..a |-> " "] \o t \o [k \in 1..b |-> " "]
        /\ t # <<>> => (t[1] # " " /\ t[Len(t)] # " ")

\* makeWhere has returned the fragment of a non-empty list
FragmentReturned == pc = "return" /\ lPattern # <<>>

\* C16 as stated: each pattern is inserted into the fragment verbatim, character
\* for character, with nothing added or removed, patterns with leading or
\* trailing spaces included.
C16_PatternVerbatim ==
    FragmentReturned =>
        /\ Len(Operands(where)) = Len(lPattern)
        /\ \A i \in 1..Len(lPattern) : Operands(where)[i].text = lPattern[i]

\* C16, amended: each pattern is inserted with the spaces at its two ends cut
\* off and otherwise character for character: nothing is added, escaped or
\* quoted, and no character between the ends is removed.
C16_PatternTrimmed ==
    FragmentReturned =>
        /\ Len(Operands(where)) = Len(lPattern)
        /\ \A i \in 1..Len(lPattern) :
              Operands(where)[i].text = WithoutOuterBlanks(lPattern[i])

\* a fragment built from a pattern with a leading and one with a trailing space
C16_Witness ==
    /\ FragmentReturned
    /\ lPattern = <<<<" ", "a">>, <<"a", " ">>>>
    /\ Operands(where)[1].text = <<"a">>
    /\ Operands(where)[2].text = <<"a">>

\* ------------------------------------------------------ one cycle's steps

\* the calls of one cycle, in the order of lines 211, 220 and 228
CallOrder == <<"NewConnect", "GetStatConnectionPool", "GetStatQueryDigest">>

\* C17: no step is retried within a cycle: acquire, the connection-pool query
\* and the query-digest query are each attempted at most once, in that order,
\* and the first failure ends the cycle, which goes to its sleep with nothing
\* more attempted.
C17_NoRetryInCycle ==
    /\ Len(calls) <= 3
    /\ \A i \in 1..Len(calls) :
          /\ calls[i].fn = CallOrder[i]
          /\ calls[i].err => (i = Len(calls) /\ pc = "Sleep")
    /\ pc = "NewConnect" => Len(calls) = 0
    /\ pc \in {"GetStatConnectionPool", "CPRows"} => Len(calls) = 1
    /\ pc \in {"GetStatQueryDigest", "QDRows"} => Len(calls) = 2

\* the connection-pool query failed: the cycle sleeps, the query-digest pass not
\* attempted
C17_Witness ==
    /\ pc = "Sleep"
    /\ Len(calls) = 2
    /\ calls[2] = Call("GetStatConnectionPool", TRUE, "query")
    /\ WrittenIn("qd") = {}

\* C18: every cycle, successful or failed, performs exactly one write of
\* proxysql_up, then exactly one sleep, and only then the next acquire: no cycle
\* comes back to the acquire without having slept, and none sleeps twice.
C18_OneWriteThenOneSleep ==
    [][/\ (pc' = "NewConnect" /\ pc # "NewConnect") => (pc = "Sleep" /\ upWrites = 1)
       /\ pc = "Sleep" => pc' = "NewConnect"
       /\ (pc' = "Sleep" /\ pc # "Sleep") => (upWrites = 0 /\ upWrites' = 1)
       /\ pc' # "Sleep" => upWrites' = 0]_vars

\* a failed cycle, after a healthy one that slept, is in its sleep with its one
\* write made
C18_Witness ==
    /\ pc = "Sleep"
    /\ upBefore = <<1>>
    /\ CycleFailed
    /\ upWrites = 1
    /\ Up = <<0>>

\* ---------------------------------------------- the fields that are written

\* the numeric fields of a connection-pool row as Scan fills them (line 275)
CPNumericFields ==
    {"ConnUsed", "ConnFree", "ConnOK", "ConnERR", "MaxConnUsed", "Queries",
     "QueriesGTIDSync", "BytesDataSent", "BytesDataRecv", "LatencyUs"}

QDNumericFields == {"count_star", "min_time", "max_time"}

\* the step sets some metric of ms, under label tuple l, to v
SetsTo(ms, l, v) == \E m \in ms : l \in DOMAIN gauges'[m] /\ gauges'[m][l] = v

\* the step of a scanned row of either pass publishes these fields of the row
Publishes(cpFields, qdFields) ==
    /\ (pc = "CPRows" /\ rows # <<>> /\ pc' = "CPRows") =>
          \A f \in cpFields :
              SetsTo(CPMetrics, CPLabels(CPSample(Head(rows))), CPSample(Head(rows))[f])
    /\ (pc = "QDRows" /\ rows # <<>> /\ pc' = "QDRows") =>
          \A f \in qdFields :
              SetsTo(QDMetrics, QDLabels(QDSample(Head(rows))), QDSample(Head(rows))[f])

\* C19 as stated: for each mapped row every numeric field of the row is written
\* under the row's label tuple: conn_used, conn_free, conn_ok, conn_err,
\* max_conn_used, queries, queries_gtid_sync, bytes_sent, bytes_recv and
\* latency_us of a connection-pool row; count_star, min_time and max_time of a
\* query-digest row.
C19_AllFieldsWritten ==
    [][Publishes(CPNumericFields, QDNumericFields)]_vars

\* C19, amended: every numeric field of the row is written under the row's label
\* tuple except max_conn_used and queries_gtid_sync of a connection-pool row,
\* which are read from the row and written to no metric at all.
C19_AllButTwoFieldsWritten ==
    [][/\ Publishes(CPNumericFields \ {"MaxConnUsed", "QueriesGTIDSync"}, QDNumericFields)
       /\ (pc = "CPRows" /\ rows # <<>> /\ pc' = "CPRows") =>
             \A m \in MetricNames : \A l \in DOMAIN gauges'[m] :
                 /\ gauges'[m][l] # CPSample(Head(rows)).MaxConnUsed
                 /\ gauges'[m][l] # CPSample(Head(rows)).QueriesGTIDSync]_vars

\* a connection-pool row and a query-digest row have been written in one cycle,
\* and no gauge holds the row's max_conn_used
C19_Witness ==
    /\ pc = "QDRows"
    /\ <<"cp", CPLabels(CPSample(3))>> \in written
    /\ <<"qd", QDLabels(QDSample(3))>> \in written
    /\ lastRow[<<"cp", CPLabels(CPSample(3))>>] = 3
    /\ lastRow[<<"qd", QDLabels(QDSample(3))>>] = 3
    /\ gauges["proxysql_queries"][CPLabels(CPSample(3))] = CPSample(3).Queries
    /\ gauges["proxysql_query_max_time"][QDLabels(QDSample(3))] = QDSample(3).max_time
    /\ \A m \in CPMetrics : gauges[m][CPLabels(CPSample(3))] # CPSample(3).MaxConnUsed

\* ------------------------------------------------------- the latest row wins

\* the value metric m gets from the row with that id
FieldOf(m, id) ==
    IF m \in CPMetrics THEN CPValue(m, CPSample(id)) ELSE QDValue(m, QDSample(id))

\* C20: writes overwrite: at every state the value held for a metric and a
\* label tuple is the field of the row processed last with that label tuple,
\* across cycles and within one pass (the later row wins); values are never
\* added up.
C20_LatestRowWins ==
    \A m \in LabeledMetrics : \A l \in DOMAIN gauges[m] :
        /\ <<PassOf(m), l>> \in DOMAIN lastRow
        /\ gauges[m][l] = FieldOf(m, lastRow[<<PassOf(m), l>>])

\* in its second cycle at the earliest, one connection-pool pass has processed
\* row 2 and then row 1 of the same backend: the gauges hold row 1's fields
C20_Witness ==
    /\ pc = "CPRows"
    /\ upBefore # <<>>
    /\ <<"cp", CPLabels(CPSample(1))>> \in overwrote
    /\ lastRow[<<"cp", CPLabels(CPSample(1))>>] = 1
    /\ gauges["proxysql_conn_used"][CPLabels(CPSample(1))] = CPSample(1).ConnUsed
    /\ gauges["proxysql_queries"][CPLabels(CPSample(1))] = CPSample(1).Queries

\* ---------------------------------------------------- a row that fails to scan

\* the step is the failed Scan of the next row of the result set being read
ScanFails == pc \in {"CPRows", "QDRows"} /\ rowsEnd' = "scan"

\* C21: a malformed row is never partially applied: in both passes the row whose
\* Scan fails causes no write of a labeled value, the pass returns the error at
\* once (the cycle goes to its liveness write and its sleep), and no later row
\* of that result set is processed: labeled values change only while a result
\* set is read without error.
C21_MalformedRowNotApplied ==
    [][/\ ScanFails =>
            /\ rows # <<>>
            /\ \A m \in LabeledMetrics : gauges'[m] = gauges[m]
            /\ written' = written
            /\ lastRow' = lastRow
            /\ calls' = Append(calls,
                               Call(IF pc = "CPRows" THEN "GetStatConnectionPool"
                                                     ELSE "GetStatQueryDigest",
                                    TRUE, "scan"))
            /\ pc' = "Sleep"
            /\ rows' = <<>>
       /\ (\E m \in LabeledMetrics : gauges'[m] # gauges[m]) =>
            /\ pc \in {"CPRows", "QDRows"}
            /\ pc' = pc
            /\ rowsEnd = "open" /\ rowsEnd' = "open"
            /\ rows' = Tail(rows)]_vars

\* in the first cycle the second row of the query-digest result failed to scan:
\* the sink holds the three values of the first row and no other query-digest
\* value
C21_Witness ==
    /\ pc = "Sleep"
    /\ upBefore = <<>>
    /\ rowsEnd = "scan"
    /\ Len(calls) = 3
    /\ calls[3] = Call("GetStatQueryDigest", TRUE, "scan")
    /\ Cardinality(WrittenIn("qd")) = 1
    /\ \A m \in QDMetrics : Cardinality(DOMAIN gauges[m]) = 1

\* ------------------------------------------- what a failing cycle leaves alone

\* the cycle failed at the acquire or at the execution of the connection-pool
\* query
FailedBeforeRows ==
    /\ CycleFailed
    /\ \/ FailedCall.fn = "NewConnect"
       \/ FailedCall = Call("GetStatConnectionPool", TRUE, "query")

\* C22: in a cycle where the acquire fails, or the connection-pool query fails
\* to execute, only proxysql_up changes: every labeled value is left as it was;
\* and in a cycle where the connection-pool pass fails, no query-digest value
\* changes. (A labeled value changes only in a step that records its label
\* tuple as written by the cycle, and that record is emptied only by the sleep.)
C22_FailedCycleFrame ==
    /\ [](/\ FailedBeforeRows => written = {}
          /\ (CycleFailed /\ FailedCall.fn = "GetStatConnectionPool")
                => WrittenIn("qd") = {})
    /\ [][/\ \A m \in LabeledMetrics :
               /\ DOMAIN gauges[m] \subseteq DOMAIN gauges'[m]
               /\ \A l \in DOMAIN gauges'[m] :
                     (l \notin DOMAIN gauges[m] \/ gauges'[m][l] # gauges[m][l])
                         => <<PassOf(m), l>> \in written'
          /\ written \subseteq written' \/ (pc = "Sleep" /\ written' = {})
          /\ (pc \in {"NewConnect", "GetStatConnectionPool"} /\ pc' = "Sleep") =>
               /\ \A m \in LabeledMetrics : gauges'[m] = gauges[m]
               /\ Up' = <<UpFailed>>]_vars

\* after a healthy cycle the connection-pool query failed: the labeled values of
\* earlier cycles are in the sink and this cycle wrote none
C22_Witness ==
    /\ pc = "Sleep"
    /\ upBefore = <<1>>
    /\ Len(calls) = 2
    /\ calls[2] = Call("GetStatConnectionPool", TRUE, "query")
    /\ written = {}
    /\ Up = <<0>>
    /\ \E m \in CPMetrics : DOMAIN gauges[m] # {}
    /\ \E m \in QDMetrics : DOMAIN gauges[m] # {}

\* ------------------------------------------------------------ proxysql_up

\* a cycle of this process has made its liveness write
FirstWriteDone == upBefore # <<>> \/ upWrites > 0

\* C23: proxysql_up has no value from the start of the process until the first
\* cycle makes its liveness write; from that write on it holds 0 or 1 and is
\* never unset again.
C23_UpUnsetUntilFirstWrite ==
    /\ Up = <<>>
    /\ [][/\ Up' = <<>> <=> ~FirstWriteDone'
          /\ Up # <<>> => Up' \in {<<0>>, <<1>>}
          /\ (Up = <<>> /\ Up' # <<>>) =>
                (upWrites = 0 /\ upWrites' = 1 /\ Up' \in {<<0>>, <<1>>})]_vars

\* the first cycle is reading query-digest rows: labeled values are in the sink
\* and proxysql_up has none yet
C23_Witness ==
    /\ pc = "QDRows"
    /\ upBefore = <<>>
    /\ upWrites = 0
    /\ Up = <<>>
    /\ WrittenIn("cp") # {}
    /\ WrittenIn("qd") # {}

\* ------------------------------------------------------------ result sets

\* C24: every result set a pass opens is released by the time the pass returns,
\* on the success path and on the scan-error path alike: no result set is open
\* outside the reading of a pass, and none at any sleep between cycles.
C24_ResultSetsReleased ==
    /\ pc \notin {"CPRows", "QDRows"} => openSets = 0
    /\ pc = "Sleep" => openSets = 0

\* ------------------------------------------------------------ the scrape

\* what a scrape gathers: the value of every child of every registered
\* collector, read in one piece at whatever point the loop has reached
Scrape == gauges

\* the label tuples the scrape shows that the cycle now running has written
ScrapedOfThisCycle ==
    {w \in written : \E m \in LabeledMetrics : w[2] \in DOMAIN Scrape[m]}

\* C25: a scrape taken at any point of the loop that shows proxysql_up = 1
\* shows no labeled value of a cycle still in progress or of a failed cycle:
\* whatever it shows of the running cycle, that cycle has ended with the
\* acquire and both passes returning nil.
C25_ScrapeSeesOnlySucceededCycles ==
    (UpOf(Scrape) = <<UpHealthy>> /\ ScrapedOfThisCycle # {})
        => (pc = "Sleep" /\ AllReturnedNil)

====
